---- MODULE Spec2Model ----
(***************************************************************************)
(* Model of agent-autopsy-firewall: the episode store (store.py), the      *)
(* similarity engine (store.py) and the Recorder session (recorder.py).    *)
(*                                                                         *)
(* Strings are sequences of one-character strings.  A similarity value is  *)
(* the record [n, d, e]: the float nearest to sqrt(n/d), moved by e units  *)
(* in the last place (e in -1..1) where IEEE-754 arithmetic rounds the     *)
(* computation away from that float.                                       *)
(***************************************************************************)
EXTENDS Integers, Sequences, FiniteSets, TLC

\* ------------------------------------------------------------------ bounds
MaxStore == 2        \* rows the host inserts in SpecStore
MaxSeed == 1         \* rows the host inserts in SpecGate
MaxTime == 1         \* last value of the wall clock (seconds)
MaxEvents == 1       \* events the caller logs on one recorder
MaxSessions == 2     \* sessions the recorder opens in Spec
MaxGateSessions == 1 \* sessions the recorder opens in SpecGate
MaxCalls == 2        \* direct calls of library functions the host makes

Recorders == {1, 2}

\* ------------------------------------------------------------------ inputs
\* (task, plan) pairs given to Recorder(...) and to record_episode(...)
Pairs ==
    { <<<<"a">>, <<"b">>>>,          \* "a" / "b"
      <<<<"a", "b">>, <<>>>>,        \* "ab" / ""   same bytes as "a" + "b"
      <<<<"?">>, <<>>>>,             \* "?" / ""    no word character
      <<<<"A">>, <<"b">>>> }         \* "A" / "b"   differs from "a" / "b" by case

Methods == {"exact", "fuzzy", "cosine"}

\* min_similarity values, as <<numerator, denominator>>
Thresholds == { <<2, 3>>, <<4, 5>>, <<1, 1>>, <<3, 2>> }

\* Error messages given to classify_failure, as sequences of fragments.
Messages ==
    { <<>>,
      <<"boom">>,
      <<"The connection ", "Timed Out", " after 30s">>,
      <<"dns", " lookup ", "timed out">>,        \* NETWORK pattern before a TIMEOUT pattern
      <<"404", " ", "Invalid">>,                 \* NOT_FOUND pattern before a VALIDATION pattern
      <<"typeerror", ": ", "not found">>,        \* LOGIC pattern before a NOT_FOUND pattern
      <<"Unauthorized">>,
      <<"socket error">>,
      <<"logic error">> }

\* Texts given to cosine_similarity_pure.
Texts ==
    { <<>>,                                      \* ""
      <<"a">>,                                   \* "a"
      <<"a", " ", "b">>,                         \* "a b"
      <<"B", " ", "a">>,                         \* "B a"
      <<"a", " ", "a", " ", "b">>,               \* "a a b"
      <<"?">> }                                  \* "?"

\* --------------------------------------------------------------- utilities
Min(x, y) == IF x <= y THEN x ELSE y

RECURSIVE SumOver(_, _)
SumOver(S, f) ==
    IF S = {} THEN 0
    ELSE LET x == CHOOSE y \in S : TRUE
         IN f[x] + SumOver(S \ {x}, f)

Range(s) == { s[i] : i \in DOMAIN s }

\* ------------------------------------------------------- similarity values
Sim(n, d, e) == [n |-> n, d |-> d, e |-> e]
One == Sim(1, 1, 0)
Zero == Sim(0, 1, 0)
ThresholdValue(t) == Sim(t[1] * t[1], t[2] * t[2], 0)

\* x < y on similarity values
SimLess(x, y) ==
    \/ x.n * y.d < y.n * x.d
    \/ x.n * y.d = y.n * x.d /\ x.e < y.e

SimGeq(x, y) == ~SimLess(x, y)

\* ------------------------------------------------------------ hash_signature
\* SHA-256 is taken as injective on its input bytes: a digest is
\* represented by the byte string that was fed to it.
Sha256(bytes) == <<"sha256", bytes>>

hash_signature(task, plan) == Sha256(task \o plan)

\* ------------------------------------------------------------------ tokenize
Lower(c) == IF c = "A" THEN "a" ELSE IF c = "B" THEN "b" ELSE c

LowerText(text) == [i \in DOMAIN text |-> Lower(text[i])]

IsWordChar(c) == c \in {"a", "b", "A", "B", "_", "0"}

\* re.findall(r'\w+', text.lower()): the maximal runs of word characters
tokenize(text) ==
    LET t == LowerText(text)
        n == Len(t)
        starts == { i \in 1..n : IsWordChar(t[i]) /\ (i = 1 \/ ~IsWordChar(t[i - 1])) }
        EndOf(i) == CHOOSE j \in i..n :
                        /\ \A k \in i..j : IsWordChar(t[k])
                        /\ (j = n \/ ~IsWordChar(t[j + 1]))
        Nth(k) == CHOOSE i \in starts : Cardinality({ s \in starts : s < i }) = k - 1
    IN [k \in 1..Cardinality(starts) |-> SubSeq(t, Nth(k), EndOf(Nth(k)))]

\* collections.Counter(tokens)
Counter(tokens) ==
    [t \in Range(tokens) |-> Cardinality({ i \in DOMAIN tokens : tokens[i] = t })]

\* Sign of fl(fl(sqrt m1) * fl(sqrt m2)) - sqrt(m1 * m2) in IEEE-754 double
\* arithmetic, for the magnitudes the bounded texts produce (m1, m2 <= 5).
MagnitudeRounding(m1, m2) ==
    IF m1 = m2 /\ m1 \in {2, 5} THEN 1
    ELSE IF m1 = m2 /\ m1 = 3 THEN -1
    ELSE 0

cosine_similarity_pure(text1, text2) ==
    LET tokens1 == tokenize(text1)
        tokens2 == tokenize(text2)
        count1 == Counter(tokens1)
        count2 == Counter(tokens2)
        terms == DOMAIN count1 \cup DOMAIN count2
        Get(c, t) == IF t \in DOMAIN c THEN c[t] ELSE 0
        dot_product == SumOver(terms, [t \in terms |-> Get(count1, t) * Get(count2, t)])
        sq1 == SumOver(DOMAIN count1, [t \in DOMAIN count1 |-> count1[t] * count1[t]])
        sq2 == SumOver(DOMAIN count2, [t \in DOMAIN count2 |-> count2[t] * count2[t]])
    IN IF tokens1 = <<>> \/ tokens2 = <<>> THEN Zero
       ELSE IF sq1 = 0 \/ sq2 = 0 THEN Zero
       ELSE Sim(dot_product * dot_product, sq1 * sq2,
                IF dot_product = 0 THEN 0 ELSE 0 - MagnitudeRounding(sq1, sq2))

\* ------------------------------------------------- SequenceMatcher.ratio()
\* find_longest_match: the longest common block of a[alo..ahi] and
\* b[blo..bhi]; of those the one starting earliest in a, then earliest in b.
LongestMatch(a, b, alo, ahi, blo, bhi) ==
    LET blocks == { c \in (alo..ahi) \X (blo..bhi) \X (1..Min(ahi - alo + 1, bhi - blo + 1)) :
                        /\ c[1] + c[3] - 1 <= ahi
                        /\ c[2] + c[3] - 1 <= bhi
                        /\ \A x \in 0..(c[3] - 1) : a[c[1] + x] = b[c[2] + x] }
        Better(c, o) ==
            \/ c[3] > o[3]
            \/ c[3] = o[3] /\ c[1] < o[1]
            \/ c[3] = o[3] /\ c[1] = o[1] /\ c[2] <= o[2]
    IN IF blocks = {} THEN <<alo, blo, 0>>
       ELSE CHOOSE c \in blocks : \A o \in blocks : Better(c, o)

\* get_matching_blocks: total size of the blocks found by recursing to the
\* left and to the right of the longest match.
RECURSIVE MatchedSize(_, _, _, _, _, _)
MatchedSize(a, b, alo, ahi, blo, bhi) ==
    IF alo > ahi \/ blo > bhi THEN 0
    ELSE LET m == LongestMatch(a, b, alo, ahi, blo, bhi)
         IN IF m[3] = 0 THEN 0
            ELSE m[3] + MatchedSize(a, b, alo, m[1] - 1, blo, m[2] - 1)
                      + MatchedSize(a, b, m[1] + m[3], ahi, m[2] + m[3], bhi)

\* ratio = 2.0 * matches / length, 1.0 when both strings are empty
SequenceMatcherRatio(a, b) ==
    LET matches == MatchedSize(a, b, 1, Len(a), 1, Len(b))
        length == Len(a) + Len(b)
    IN IF length = 0 THEN One
       ELSE Sim(4 * matches * matches, length * length, 0)

\* ------------------------------------------------------------ plan_similarity
plan_similarity(a, b, method) ==
    IF method = "exact" THEN (IF a = b THEN One ELSE Zero)
    ELSE IF method = "cosine" THEN cosine_similarity_pure(a, b)
    ELSE SequenceMatcherRatio(a, b)

\* f"{task} {plan}"
FullText(task, plan) == task \o <<" ">> \o plan

\* ------------------------------------------------------------------- Episode
\* Names record_episode accepts as keyword arguments.
RecordEpisodeParams == {"task", "plan", "outcome", "summary", "trace_path", "db_path"}

\* Keyword arguments Recorder._persist passes to record_episode.
PersistKwargs ==
    {"task", "plan", "outcome", "summary", "trace_path", "failure_kind", "db_path"}

None == [type |-> "None"]

\* Primary key given to a new row: one more than the largest rowid.
NextId(db) ==
    IF db = <<>> THEN 1
    ELSE 1 + (CHOOSE m \in { db[i].id : i \in DOMAIN db } :
                  \A i \in DOMAIN db : db[i].id <= m)

\* As record_episode, but a row that has the new row's signature is
\* overwritten in place (an upsert keyed on the signature).
record_episode_upsert(db, task, plan, outcome, summary, trace_path, clock) ==
    LET row == [id |-> NextId(db),
                signature |-> hash_signature(task, plan),
                task |-> task,
                plan |-> plan,
                outcome |-> outcome,
                summary |-> summary,
                trace_path |-> trace_path,
                created_at |-> clock]
        same == { i \in DOMAIN db : db[i].signature = row.signature }
    IN IF same = {} THEN Append(db, row)
       ELSE [i \in DOMAIN db |-> IF i \in same THEN [row EXCEPT !.id = db[i].id] ELSE db[i]]

\* record_episode: appends one row and leaves every other row alone.
record_episode(db, task, plan, outcome, summary, trace_path, clock) ==
    Append(db, [id |-> NextId(db),
                signature |-> hash_signature(task, plan),
                task |-> task,
                plan |-> plan,
                outcome |-> outcome,
                summary |-> summary,
                trace_path |-> trace_path,
                created_at |-> clock])

\* ---------------------------------------------------------- find_failures_like
EpisodeMatch(ep, similarity) == [episode |-> ep, similarity |-> similarity]

\* select(Episode).where(signature == sig, outcome == "failure"), in row order
ExactResults(db, signature) ==
    SelectSeq(db, LAMBDA ep : ep.signature = signature /\ ep.outcome = "failure")

\* select(Episode).where(outcome == "failure"), in row order
AllFailures(db) == SelectSeq(db, LAMBDA ep : ep.outcome = "failure")

\* As HeuristicMatches, but with the comparison sim > min_similarity.
RECURSIVE HeuristicMatchesStrict(_, _, _, _, _, _, _)
HeuristicMatchesStrict(all_eps, i, matches, task, plan, min_similarity, method) ==
    IF i > Len(all_eps) THEN matches
    ELSE LET ep == all_eps[i]
             sim == plan_similarity(FullText(ep.task, ep.plan), FullText(task, plan), method)
             next ==
                 IF \E k \in DOMAIN matches : matches[k].episode.id = ep.id THEN matches
                 ELSE IF SimLess(ThresholdValue(min_similarity), sim)
                      THEN Append(matches, EpisodeMatch(ep, sim))
                      ELSE matches
         IN HeuristicMatchesStrict(all_eps, i + 1, next, task, plan, min_similarity, method)

\* As HeuristicMatches, but with the comparison sim <= min_similarity.
RECURSIVE HeuristicMatchesReversed(_, _, _, _, _, _, _)
HeuristicMatchesReversed(all_eps, i, matches, task, plan, min_similarity, method) ==
    IF i > Len(all_eps) THEN matches
    ELSE LET ep == all_eps[i]
             sim == plan_similarity(FullText(ep.task, ep.plan), FullText(task, plan), method)
             next ==
                 IF \E k \in DOMAIN matches : matches[k].episode.id = ep.id THEN matches
                 ELSE IF SimGeq(ThresholdValue(min_similarity), sim)
                      THEN Append(matches, EpisodeMatch(ep, sim))
                      ELSE matches
         IN HeuristicMatchesReversed(all_eps, i + 1, next, task, plan, min_similarity, method)

\* The loop over all_eps: appends the heuristic matches to matches.
RECURSIVE HeuristicMatches(_, _, _, _, _, _, _)
HeuristicMatches(all_eps, i, matches, task, plan, min_similarity, method) ==
    IF i > Len(all_eps) THEN matches
    ELSE LET ep == all_eps[i]
             sim == plan_similarity(FullText(ep.task, ep.plan), FullText(task, plan), method)
             next ==
                 IF \E k \in DOMAIN matches : matches[k].episode.id = ep.id THEN matches
                 ELSE IF SimGeq(sim, ThresholdValue(min_similarity))
                      THEN Append(matches, EpisodeMatch(ep, sim))
                      ELSE matches
         IN HeuristicMatches(all_eps, i + 1, next, task, plan, min_similarity, method)

\* best = {}: keeps, per episode id, the match of highest similarity, at the
\* position where the id was first seen.
RECURSIVE Deduplicate(_, _, _)
Deduplicate(matches, i, best) ==
    IF i > Len(matches) THEN best
    ELSE LET m == matches[i]
             seen == { k \in DOMAIN best : best[k].episode.id = m.episode.id }
             next ==
                 IF seen = {} THEN Append(best, m)
                 ELSE LET k == CHOOSE x \in seen : TRUE
                      IN IF SimLess(best[k].similarity, m.similarity)
                         THEN [best EXCEPT ![k] = m]
                         ELSE best
         IN Deduplicate(matches, i + 1, next)

\* sorted(..., key=similarity, reverse=True): stable, descending
RECURSIVE SortedDescending(_, _, _)
SortedDescending(items, i, out) ==
    IF i > Len(items) THEN out
    ELSE LET m == items[i]
             before == SelectSeq(out, LAMBDA o : SimGeq(o.similarity, m.similarity))
             after == SelectSeq(out, LAMBDA o : SimLess(o.similarity, m.similarity))
         IN SortedDescending(items, i + 1, before \o <<m>> \o after)

find_failures_like(db, task, plan, min_similarity, method) ==
    LET signature == hash_signature(task, plan)
        exact_results == ExactResults(db, signature)
        exact == [k \in DOMAIN exact_results |-> EpisodeMatch(exact_results[k], One)]
        matches ==
            IF method # "exact"
            THEN HeuristicMatches(AllFailures(db), 1, exact, task, plan, min_similarity, method)
            ELSE exact
        best == Deduplicate(matches, 1, <<>>)
    IN SortedDescending(best, 1, <<>>)

\* ------------------------------------------------------------ classify_failure
\* An error message is a sequence of fragments; a pattern occurs in the
\* message exactly when it equals the lowercased form of a fragment.
LowerFragment(f) ==
    CASE f = "Timed Out" -> "timed out"
      [] f = "Unauthorized" -> "unauthorized"
      [] f = "Invalid" -> "invalid"
      [] OTHER -> f

KindOrder == <<"TIMEOUT", "PERMISSION", "VALIDATION", "NETWORK", "NOT_FOUND", "LOGIC">>

Patterns(kind) ==
    CASE kind = "TIMEOUT" -> {"timeout", "timed out", "deadline"}
      [] kind = "PERMISSION" -> {"permission denied", "403", "access denied", "unauthorized"}
      [] kind = "VALIDATION" -> {"validation error", "invalid", "pydantic", "schema mismatch"}
      [] kind = "NETWORK" -> {"connection failed", "dns", "502", "503", "504", "socket error"}
      [] kind = "NOT_FOUND" -> {"not found", "404", "no such file"}
      [] kind = "LOGIC" -> {"assertionerror", "logic error", "valueerror", "typeerror"}

FailureKinds == Range(KindOrder) \cup {"UNKNOWN"}

\* As classify_failure, but the last category that matches wins.
classify_failure_last(err_msg) ==
    LET msg_lower == { LowerFragment(err_msg[i]) : i \in DOMAIN err_msg }
        hits == { k \in DOMAIN KindOrder : Patterns(KindOrder[k]) \cap msg_lower # {} }
    IN IF hits = {} THEN "UNKNOWN"
       ELSE KindOrder[CHOOSE k \in hits : \A h \in hits : k >= h]

classify_failure(err_msg) ==
    LET msg_lower == { LowerFragment(err_msg[i]) : i \in DOMAIN err_msg }
        hits == { k \in DOMAIN KindOrder : Patterns(KindOrder[k]) \cap msg_lower # {} }
    IN IF hits = {} THEN "UNKNOWN"
       ELSE KindOrder[CHOOSE k \in hits : \A h \in hits : k <= h]

get_surgical_advice(kind) ==
    CASE kind = "TIMEOUT" -> "Consider increasing the timeout parameter or checking system load."
      [] kind = "PERMISSION" -> "Verify file permissions, environment variables, or API tokens."
      [] kind = "VALIDATION" -> "Check if the input schema has changed or if required fields are missing."
      [] kind = "NETWORK" -> "Check connectivity or retry with an exponential backoff."
      [] kind = "NOT_FOUND" -> "Verify file paths or endpoint URLs. Ensure dependent resources exist."
      [] kind = "LOGIC" -> "Review the core algorithm. Add more logging to trace the state transition."
      [] OTHER -> "Perform a deep autopsy using the trace logs and filesystem diffs."

\* ------------------------------------------------------------------ exceptions
\* Errors the caller's work raises inside a session.
WorkErrors ==
    { [type |-> "ValueError", msg |-> <<"boom">>],
      [type |-> "TimeoutError", msg |-> <<"The connection ", "Timed Out", " after 30s">>] }

\* record_episode() called with a keyword it does not declare
UnexpectedKeyword(name) ==
    [type |-> "TypeError",
     msg |-> <<"record_episode() got an unexpected keyword argument '", name, "'">>]

\* 'Episode' object has no attribute ...
NoAttribute(name) ==
    [type |-> "AttributeError", msg |-> <<"'Episode' object has no attribute '", name, "'">>]

\* open(trace_path, "w") or os.listdir(cwd) failed
OSError(what) == [type |-> "OSError", msg |-> <<what>>]

BlockedPlanError(similarity, kind, advice) ==
    [type |-> "BlockedPlanError", similarity |-> similarity, kind |-> kind, advice |-> advice]

\* ---------------------------------------------------------- working directory
\* The working directory holds one small text file; its content is a
\* version number.  A read of the directory has one of these outcomes.
ReadOutcomes == {"ok", "read_failed", "listdir_failed"}

\* get_file_contents: os.listdir is outside the try block and raises; a file
\* that cannot be read is left out of the result.
ListdirRaises(outcome) == outcome = "listdir_failed"

get_file_contents(dir, outcome) ==
    IF outcome = "ok" THEN dir ELSE [name \in {} |-> 0]

\* snapshot_env: the listing, or an error marker in its place
snapshot_env(dir, outcome) ==
    IF outcome = "ok" THEN [files |-> DOMAIN dir]
    ELSE IF outcome = "read_failed" THEN [files |-> {"stat_failed"}]
    ELSE [files |-> {"listdir_failed"}]

Event(ts, kind, detail) == [ts |-> ts, kind |-> kind, detail |-> detail]

\* Arguments of Recorder(...): <<(task, plan), min_similarity, method>>
Configs ==
    { <<<<<<"a">>, <<"b">>>>, <<4, 5>>, "fuzzy">>,       \* the defaults
      <<<<<<"a">>, <<"b">>>>, <<3, 2>>, "exact">>,       \* a threshold no score reaches
      <<<<<<"a", "b">>, <<>>>>, <<2, 3>>, "fuzzy">>,     \* 2/3 is the ratio of "ab " and "a b"
      <<<<<<"?">>, <<>>>>, <<4, 5>>, "cosine">>,         \* a text without tokens
      <<<<<<"A">>, <<"b">>>>, <<1, 1>>, "cosine">> }     \* the tokens of "a b"

\* -------------------------------------------------------------------- state
VARIABLES
    store,      \* the Episode table, in row order
    files,      \* the trace directory: path -> trace written there (or NoFile)
    cwd,        \* the working directory: file name -> content
    now,        \* time.time(), in whole seconds
    rec,        \* the Recorder objects and the session each is in
    calls       \* the direct calls of library functions the host has made

vars == <<store, files, cwd, now, rec, calls>>

NoFile == [outcome |-> "absent"]

Unconstructed ==
    [pc |-> "none", task |-> <<>>, plan |-> <<>>, min_similarity |-> <<4, 5>>,
     similarity_method |-> "fuzzy", events |-> <<>>, before_files |-> [name \in {} |-> 0],
     capture_diffs |-> TRUE, trace_path |-> 0, start |-> 0,
     work |-> "none", error |-> None, raised |-> None,
     writes |-> <<>>, inserted |-> <<>>, ioError |-> FALSE,
     opened |-> 0, logged |-> 0]

Init ==
    /\ store = <<>>
    /\ files = [path \in 0..MaxTime |-> NoFile]
    /\ cwd = [name \in {"f"} |-> 0]
    /\ now = 0
    /\ rec = [r \in Recorders |-> Unconstructed]
    /\ calls = <<>>

\* ------------------------------------------------------------------ Recorder
\* Recorder.__init__
Recorder(task, plan, min_similarity, similarity_method) ==
    [Unconstructed EXCEPT !.pc = "idle", !.task = task, !.plan = plan,
                          !.min_similarity = min_similarity,
                          !.similarity_method = similarity_method]

\* Recorder.log_event
log_event(events, ts, kind, detail) == Append(events, Event(ts, kind, detail))

\* The part of the state a session's exit handler works on.
Context(self) ==
    [events |-> self.events, files |-> files, store |-> store,
     writes |-> self.writes, inserted |-> self.inserted,
     raised |-> None, ioError |-> FALSE]

Content(m, name) == IF name \in DOMAIN m THEN m[name] ELSE -1

\* Recorder._capture_diffs
capture_diffs(ctx, self, dir, outcome, clock) ==
    IF ListdirRaises(outcome)
    THEN [ctx EXCEPT !.raised = OSError("listdir"), !.ioError = TRUE]
    ELSE LET after_files == get_file_contents(dir, outcome)
             all_keys == DOMAIN self.before_files \cup DOMAIN after_files
             diffs == { name \in all_keys :
                            Content(self.before_files, name) # Content(after_files, name) }
         IN IF diffs # {}
            THEN [ctx EXCEPT !.events = log_event(@, clock, "fs_diff", [changes |-> diffs])]
            ELSE ctx

\* Recorder._persist: writes the trace file, then calls record_episode with
\* the keyword arguments of PersistKwargs.
persist(ctx, self, trace_path, outcome, summary, failure_kind, writeOk, clock) ==
    IF ~writeOk
    THEN [ctx EXCEPT !.raised = OSError("open"), !.ioError = TRUE]
    ELSE LET trace == [task |-> self.task, plan |-> self.plan, outcome |-> outcome,
                       failure_kind |-> failure_kind, summary |-> summary,
                       events |-> ctx.events]
             written == [ctx EXCEPT !.files[trace_path] = trace,
                                    !.writes = Append(@, trace)]
             unexpected == PersistKwargs \ RecordEpisodeParams
         IN IF unexpected # {}
            THEN [written EXCEPT !.raised = UnexpectedKeyword(CHOOSE k \in unexpected : TRUE)]
            ELSE [written EXCEPT
                     !.store = record_episode(@, self.task, self.plan, outcome,
                                              summary, trace_path, clock),
                     !.inserted = Append(@, NextId(ctx.store))]

\* Lines 138-144 of Recorder.session: the code after the yield, inside try.
SuccessPath(ctx, self, io, clock) ==
    LET diffed == IF self.capture_diffs
                  THEN capture_diffs(ctx, self, cwd, io.read1, clock)
                  ELSE ctx
        summary == <<"Completed in", clock - self.start>>
    IN IF diffed.raised # None THEN diffed
       ELSE persist(diffed, self, self.trace_path, "success", summary, None, io.write1, clock)

\* Lines 145-156 of Recorder.session: the except block, entered with e.
FailurePath(ctx, self, e, io, clock) ==
    LET err_msg == e.msg
        failure_kind == classify_failure(err_msg)
        caught == [ctx EXCEPT !.raised = None]
        diffed == IF self.capture_diffs
                  THEN capture_diffs(caught, self, cwd, io.read2, clock)
                  ELSE caught
        summary == <<"Failed in", clock - self.start, err_msg>>
        logged == [diffed EXCEPT !.events =
                       log_event(@, clock, "exception", [kind |-> failure_kind, err |-> err_msg])]
        saved == persist(logged, self, self.trace_path, "failure", summary,
                         failure_kind, io.write2, clock)
    IN IF diffed.raised # None THEN diffed
       ELSE IF saved.raised # None THEN saved
       ELSE [saved EXCEPT !.raised = e]

\* The generator resumed at the yield: normally (e = None) or by throw(e).
SessionExit(ctx, self, e, io, clock) ==
    IF e = None
    THEN LET done == SuccessPath(ctx, self, io, clock)
         IN IF done.raised = None THEN done
            ELSE FailurePath(done, self, done.raised, io, clock)
    ELSE FailurePath(ctx, self, e, io, clock)

\* Lines 112-127 of Recorder.session: what the gate raises for the matches
\* find_failures_like returned (None when there is none).
GateCheck(failures) ==
    IF failures = <<>> THEN None
    ELSE LET best_match == failures[1]
         IN IF "failure_kind" \notin DOMAIN best_match.episode
            THEN NoAttribute("failure_kind")
            ELSE LET kind == IF best_match.episode.failure_kind = None
                             THEN "UNKNOWN"
                             ELSE best_match.episode.failure_kind
                 IN BlockedPlanError(best_match.similarity,
                                     best_match.episode.failure_kind,
                                     get_surgical_advice(kind))

\* As SessionEnter, but the env_snapshot event is logged before the gate is
\* consulted.
SessionEnterSnapshotFirst(self, db, dir, clock, diffs, readBefore, readSnapshot) ==
    LET fresh == [self EXCEPT !.capture_diffs = diffs, !.work = "none", !.error = None,
                              !.raised = None, !.writes = <<>>, !.inserted = <<>>,
                              !.ioError = FALSE, !.opened = @ + 1,
                              !.events = log_event(@, clock, "env_snapshot",
                                                   snapshot_env(dir, readSnapshot))]
        failures == find_failures_like(db, self.task, self.plan,
                                       self.min_similarity, self.similarity_method)
        blocked == GateCheck(failures)
    IN IF blocked # None
       THEN [fresh EXCEPT !.pc = "blocked", !.raised = blocked]
       ELSE IF diffs /\ ListdirRaises(readBefore)
       THEN [fresh EXCEPT !.pc = "aborted", !.raised = OSError("listdir"), !.ioError = TRUE]
       ELSE [fresh EXCEPT
                !.pc = "running",
                !.before_files = IF diffs THEN get_file_contents(dir, readBefore) ELSE @,
                !.trace_path = clock,
                !.start = clock]

\* Lines 110-134 of Recorder.session: the code before the yield.
SessionEnter(self, db, dir, clock, diffs, readBefore, readSnapshot) ==
    LET fresh == [self EXCEPT !.capture_diffs = diffs, !.work = "none", !.error = None,
                              !.raised = None, !.writes = <<>>, !.inserted = <<>>,
                              !.ioError = FALSE, !.opened = @ + 1]
        failures == find_failures_like(db, self.task, self.plan,
                                       self.min_similarity, self.similarity_method)
        blocked == GateCheck(failures)
    IN IF blocked # None
       THEN [fresh EXCEPT !.pc = "blocked", !.raised = blocked]
       ELSE IF diffs /\ ListdirRaises(readBefore)
       THEN [fresh EXCEPT !.pc = "aborted", !.raised = OSError("listdir"), !.ioError = TRUE]
       ELSE [fresh EXCEPT
                !.pc = "running",
                !.before_files = IF diffs THEN get_file_contents(dir, readBefore) ELSE @,
                !.trace_path = clock,
                !.start = clock,
                !.events = log_event(@, clock, "env_snapshot", snapshot_env(dir, readSnapshot))]

\* ------------------------------------------------------------------- actions
\* rec = Recorder(task, plan, ...)
Construct(r) ==
    /\ rec[r].pc = "none"
    /\ \E c \in Configs :
           rec' = [rec EXCEPT ![r] = Recorder(c[1][1], c[1][2], c[2], c[3])]
    /\ UNCHANGED <<store, files, cwd, now, calls>>

\* with rec.session(capture_diffs) as r: the directory reads come out as one
\* of reads
Enter(r, reads, limit) ==
    /\ rec[r].pc \in {"idle", "blocked", "aborted", "ended"}
    /\ rec[r].opened < limit
    /\ \E diffs \in BOOLEAN, readBefore \in reads, readSnapshot \in reads :
           rec' = [rec EXCEPT ![r] =
                       SessionEnter(@, store, cwd, now, diffs, readBefore, readSnapshot)]
    /\ UNCHANGED <<store, files, cwd, now, calls>>

\* r.log_event("step", ...) in the caller's work
LogEvent(r) ==
    /\ rec[r].pc = "running"
    /\ rec[r].logged < MaxEvents
    /\ rec' = [rec EXCEPT ![r].events = log_event(@, now, "step", [x |-> rec[r].logged]),
                          ![r].logged = @ + 1]
    /\ UNCHANGED <<store, files, cwd, now, calls>>

\* the caller's work rewrites the file in the working directory
WorkWrite(r) ==
    /\ rec[r].pc = "running"
    /\ cwd["f"] = 0
    /\ cwd' = [cwd EXCEPT !["f"] = 1]
    /\ UNCHANGED <<store, files, now, rec, calls>>

\* Outcomes of the reads and writes of the exit handler: read1 and write1 on
\* the path after the yield, read2 and write2 in the except block.
IOOutcomes == [read1 : ReadOutcomes, write1 : BOOLEAN, read2 : ReadOutcomes, write2 : BOOLEAN]

NoFault == [read1 |-> "ok", write1 |-> TRUE, read2 |-> "ok", write2 |-> TRUE]

Finish(r, e, io) ==
    LET self == [rec[r] EXCEPT !.work = IF e = None THEN "returned" ELSE "raised",
                               !.error = e]
        out == SessionExit(Context(self), self, e, io, now)
    IN /\ rec' = [rec EXCEPT ![r] = [self EXCEPT !.pc = "ended",
                                                 !.events = out.events,
                                                 !.writes = out.writes,
                                                 !.inserted = out.inserted,
                                                 !.raised = out.raised,
                                                 !.ioError = out.ioError]]
       /\ files' = out.files
       /\ store' = out.store
       /\ UNCHANGED <<cwd, now, calls>>

\* the with-block is left normally
ExitNormal(r, ios) ==
    /\ rec[r].pc = "running"
    /\ \E io \in ios : Finish(r, None, io)

\* the with-block is left by an error of the caller's work
ExitRaise(r, ios) ==
    /\ rec[r].pc = "running"
    /\ \E e \in WorkErrors, io \in ios : Finish(r, e, io)

\* record_episode(task, plan, outcome, summary, trace_path) called by the host
RecordEpisode(limit) ==
    /\ Len(store) < limit
    /\ \E p \in Pairs, outcome \in {"success", "failure"} :
           store' = record_episode(store, p[1], p[2], outcome, <<"manual">>, "manual", now)
    /\ UNCHANGED <<files, cwd, now, rec, calls>>

\* the wall clock advances; a session is shorter than one second
Tick ==
    /\ now < MaxTime
    /\ \A r \in Recorders : rec[r].pc # "running"
    /\ now' = now + 1
    /\ UNCHANGED <<store, files, cwd, rec, calls>>

\* A direct call of a library function, with what it returned.
Call(fn, args, result) == [fn |-> fn, args |-> args, result |-> result]

\* classify_failure(msg) called by the host
ClassifyCall ==
    /\ Len(calls) < MaxCalls
    /\ \E msg \in Messages :
           calls' = Append(calls, Call("classify_failure", <<msg>>, classify_failure(msg)))
    /\ UNCHANGED <<store, files, cwd, now, rec>>

\* cosine_similarity_pure(text1, text2) called by the host
CosineCall ==
    /\ Len(calls) < MaxCalls
    /\ \E text1 \in Texts, text2 \in Texts :
           calls' = Append(calls, Call("cosine_similarity_pure", <<text1, text2>>,
                                       cosine_similarity_pure(text1, text2)))
    /\ UNCHANGED <<store, files, cwd, now, rec>>

\* As Query, but the rows that matched are deleted from the table.
QueryConsuming(db, task, plan, min_similarity, method) ==
    LET matches == find_failures_like(db, task, plan, min_similarity, method)
    IN [store |-> SelectSeq(db, LAMBDA ep :
                      \A k \in DOMAIN matches : matches[k].episode.id # ep.id),
        matches |-> matches]

\* As Query, but every other call returns its matches in the reverse order.
QueryAlternating(db, task, plan, min_similarity, method) ==
    LET matches == find_failures_like(db, task, plan, min_similarity, method)
        n == Len(matches)
    IN [store |-> db,
        matches |-> IF Len(calls) % 2 = 0 THEN matches
                    ELSE [k \in 1..n |-> matches[n + 1 - k]]]

\* One call of find_failures_like on the table db: the table when the
\* database session is closed, and the list returned.  The session only
\* executes SELECT statements and is closed without a commit.
Query(db, task, plan, min_similarity, method) ==
    [store |-> db,
     matches |-> find_failures_like(db, task, plan, min_similarity, method)]

\* Arguments of the host's direct queries: one for each method.
Queries == { c \in Configs : c[2] # <<4, 5>> }

\* find_failures_like(task, plan, min_similarity, method) called by the host
\* on the store as it is
FindCall ==
    /\ Len(calls) < MaxCalls
    /\ \E c \in Queries :
           LET q == Query(store, c[1][1], c[1][2], c[2], c[3])
           IN /\ store' = q.store
              /\ calls' = Append(calls, Call("find_failures_like",
                                             <<store, c[1][1], c[1][2], c[2], c[3]>>,
                                             q.matches))
    /\ UNCHANGED <<files, cwd, now, rec>>

\* ------------------------------------------------------------ specifications
\* The host program is single-threaded: it runs its sessions one after
\* another on one Recorder.
Host == CHOOSE r \in Recorders : \A o \in Recorders : r <= o

\* Spec: the life of the host's sessions, with every read and write of the
\* exit handler succeeding.
Next ==
    \/ Construct(Host)
    \/ Enter(Host, {"ok"}, MaxSessions)
    \/ LogEvent(Host)
    \/ WorkWrite(Host)
    \/ ExitNormal(Host, {NoFault})
    \/ ExitRaise(Host, {NoFault})
    \/ Tick

Spec == Init /\ [][Next]_vars

\* SpecGate: the host also inserts episodes itself, so that sessions meet a
\* store that holds failures; the clock stands still.
NextGate ==
    \/ RecordEpisode(MaxSeed)
    \/ Construct(Host)
    \/ Enter(Host, {"ok"}, MaxGateSessions)
    \/ LogEvent(Host)
    \/ WorkWrite(Host)
    \/ ExitNormal(Host, {NoFault})
    \/ ExitRaise(Host, {NoFault})

SpecGate == Init /\ [][NextGate]_vars

\* SpecStore: the store alone, filled by record_episode.
NextStore ==
    \/ RecordEpisode(MaxStore)
    \/ Tick

SpecStore == Init /\ [][NextStore]_vars

\* SpecFault: one recorder whose directory reads and trace writes can fail.
NextFault ==
    \/ Construct(Host)
    \/ Enter(Host, ReadOutcomes, MaxGateSessions)
    \/ LogEvent(Host)
    \/ WorkWrite(Host)
    \/ ExitNormal(Host, IOOutcomes)
    \/ ExitRaise(Host, IOOutcomes)

SpecFault == Init /\ [][NextFault]_vars

\* SpecQuery: the host fills the store and queries it.
NextQuery ==
    \/ RecordEpisode(MaxStore)
    \/ FindCall

SpecQuery == Init /\ [][NextQuery]_vars

\* SpecPure: the host calls the pure functions of the library.
NextPure ==
    \/ ClassifyCall
    \/ CosineCall

SpecPure == Init /\ [][NextPure]_vars

\* SpecRace: two processes, each with its own Recorder, share one store and
\* one trace directory; their sessions interleave at the yield.
NextRace ==
    \/ \E r \in Recorders : Construct(r)
    \/ \E r \in Recorders : Enter(r, {"ok"}, MaxGateSessions)
    \/ \E r \in Recorders : ExitNormal(r, {NoFault})
    \/ \E r \in Recorders : ExitRaise(r, {NoFault})

SpecRace == Init /\ [][NextRace]_vars

\* SpecHistory: the store grows by the host's inserts while the host's
\* sessions come and go.
NextHistory ==
    \/ RecordEpisode(MaxStore)
    \/ Construct(Host)
    \/ Enter(Host, {"ok"}, MaxSessions)
    \/ ExitNormal(Host, {NoFault})
    \/ ExitRaise(Host, {NoFault})

SpecHistory == Init /\ [][NextHistory]_vars

\* ---------------------------------------------------------------- claims
\* The step in which the host's recorder opens a session.
Opens == rec'[Host].opened = rec[Host].opened + 1

FailingEpisodes(db) == { db[i] : i \in { k \in DOMAIN db : db[k].outcome = "failure" } }

\* Score of a stored episode against the recorder's (task, plan)
ScoreAgainst(ep, self) ==
    plan_similarity(FullText(ep.task, ep.plan), FullText(self.task, self.plan),
                    self.similarity_method)

\* C1: after a session ended because the caller's work raised, the next
\* session with the same (task, plan), under method exact or fuzzy and any
\* threshold, is stopped by BlockedPlanError with similarity 1.0.
C1_RepeatOfFailedPlanBlocked ==
    [][(/\ rec[Host].pc = "ended"
        /\ rec[Host].work = "raised"
        /\ rec[Host].similarity_method \in {"exact", "fuzzy"}
        /\ Opens)
       => (/\ rec'[Host].pc = "blocked"
           /\ rec'[Host].raised.type = "BlockedPlanError"
           /\ rec'[Host].raised.similarity = One)]_vars

\* C2: a session whose work returned normally has written its trace file
\* with outcome success and no failure kind, has inserted exactly one
\* Episode, with outcome success, and lets no exception reach the caller.
C2_SuccessPersistedOnce ==
    LET self == rec[Host]
    IN (self.pc = "ended" /\ self.work = "returned" /\ ~self.ioError)
       => (/\ self.raised = None
           /\ files[self.trace_path] # NoFile
           /\ files[self.trace_path].outcome = "success"
           /\ files[self.trace_path].failure_kind = None
           /\ Len(self.inserted) = 1
           /\ \E i \in DOMAIN store :
                  store[i].id = self.inserted[1] /\ store[i].outcome = "success")

\* C3: a session whose work raised has written its trace file with outcome
\* failure and has inserted exactly one Episode, with outcome failure and a
\* failure kind of the fixed set.
C3_FailurePersistedOnce ==
    LET self == rec[Host]
    IN (self.pc = "ended" /\ self.work = "raised" /\ ~self.ioError)
       => (/\ files[self.trace_path] # NoFile
           /\ files[self.trace_path].outcome = "failure"
           /\ files[self.trace_path].failure_kind \in FailureKinds
           /\ Len(self.inserted) = 1
           /\ \E i \in DOMAIN store :
                  /\ store[i].id = self.inserted[1]
                  /\ store[i].outcome = "failure"
                  /\ "failure_kind" \in DOMAIN store[i]
                  /\ store[i].failure_kind \in FailureKinds)

\* C4: the error that reaches the caller of a session whose work raised E is
\* E itself.
C4_WorkErrorReraised ==
    LET self == rec[Host]
    IN (self.pc = "ended" /\ self.work = "raised" /\ ~self.ioError)
       => self.raised = self.error

\* C5: one session writes its trace file at most once and inserts at most
\* one Episode.
C5_PersistedAtMostOnce ==
    /\ Len(rec[Host].writes) <= 1
    /\ Len(rec[Host].inserted) <= 1

\* C6: a session the gate stops has done nothing else: the work has not
\* started and has raised nothing, no trace is written, no Episode inserted,
\* and the step that stops it changes neither the event list, the before
\* snapshot, the trace directory, the store nor the working directory.
C6_BlockedSessionHasNoEffect ==
    /\ [](rec[Host].pc = "blocked"
          => (/\ rec[Host].work = "none"
              /\ rec[Host].error = None
              /\ rec[Host].writes = <<>>
              /\ rec[Host].inserted = <<>>))
    /\ [][(Opens /\ rec'[Host].pc = "blocked")
          => (/\ rec'[Host].events = rec[Host].events
              /\ rec'[Host].before_files = rec[Host].before_files
              /\ files' = files
              /\ store' = store
              /\ cwd' = cwd)]_vars

C6_Witness == rec[Host].pc = "blocked"

\* C7: when the gate finds matches, the session is stopped by a
\* BlockedPlanError that carries the similarity of the best match, the
\* failure kind recorded on its episode and the advice for that kind.
C7_BlockedSignalCarriesBestMatch ==
    [][LET self == rec[Host]
           failures == find_failures_like(store, self.task, self.plan,
                                          self.min_similarity, self.similarity_method)
       IN (Opens /\ failures # <<>>)
          => LET best == CHOOSE m \in Range(failures) :
                             \A o \in Range(failures) : SimGeq(m.similarity, o.similarity)
                 signal == rec'[Host].raised
             IN /\ signal.type = "BlockedPlanError"
                /\ signal.similarity = best.similarity
                /\ "failure_kind" \in DOMAIN best.episode
                /\ signal.kind = best.episode.failure_kind
                /\ signal.advice = get_surgical_advice(
                       IF signal.kind = None THEN "UNKNOWN" ELSE signal.kind)]_vars

\* C8 as stated, for the thresholds of the configured range [0, 1]: a
\* session is not stopped by the gate when its threshold is above the score
\* of every failing episode of the store.
C8_NotBlockedAboveEveryScore ==
    [][(/\ Opens
        /\ rec[Host].min_similarity[1] <= rec[Host].min_similarity[2]
        /\ \A ep \in FailingEpisodes(store) :
               SimLess(ScoreAgainst(ep, rec[Host]), ThresholdValue(rec[Host].min_similarity)))
       => rec'[Host].pc # "blocked"]_vars

\* C8 (amended): a session is not stopped by the gate when no failing episode
\* carries the signature of its (task, plan) and its threshold is above the
\* score of every failing episode of the store.
C8_NotBlockedWithoutSignatureMatch ==
    [][(/\ Opens
        /\ \A ep \in FailingEpisodes(store) :
               /\ ep.signature # hash_signature(rec[Host].task, rec[Host].plan)
               /\ SimLess(ScoreAgainst(ep, rec[Host]),
                          ThresholdValue(rec[Host].min_similarity)))
       => rec'[Host].pc # "blocked"]_vars

C8_Witness ==
    /\ rec[Host].pc = "running"
    /\ rec[Host].similarity_method # "exact"
    /\ FailingEpisodes(store) # {}
    /\ \A ep \in FailingEpisodes(store) :
           /\ ep.signature # hash_signature(rec[Host].task, rec[Host].plan)
           /\ SimLess(ScoreAgainst(ep, rec[Host]), ThresholdValue(rec[Host].min_similarity))
           /\ SimLess(Zero, ScoreAgainst(ep, rec[Host]))

\* The matches C9 describes for a query, as (episode, similarity) pairs.
ExpectedMatches(db, task, plan, min_similarity, method) ==
    LET signature == hash_signature(task, plan)
        Score(ep) == plan_similarity(FullText(ep.task, ep.plan), FullText(task, plan), method)
    IN { <<ep, One>> : ep \in { f \in FailingEpisodes(db) : f.signature = signature } }
       \cup
       IF method = "exact" THEN {}
       ELSE { <<ep, Score(ep)>> :
                  ep \in { f \in FailingEpisodes(db) :
                               /\ f.signature # signature
                               /\ SimGeq(Score(f), ThresholdValue(min_similarity)) } }

\* C9: find_failures_like returns exactly the failing episodes with the
\* query's signature, at similarity 1.0, and, unless the method is exact,
\* the other failing episodes whose score is at least the threshold, at that
\* score; each episode once, by descending similarity.
C9_FindReturnsExactlyTheMatches ==
    \A p \in Pairs, t \in Thresholds, m \in Methods :
        LET found == find_failures_like(store, p[1], p[2], t, m)
        IN /\ { <<found[i].episode, found[i].similarity>> : i \in DOMAIN found }
                  = ExpectedMatches(store, p[1], p[2], t, m)
           /\ \A i, j \in DOMAIN found : i # j => found[i].episode.id # found[j].episode.id
           /\ \A i, j \in DOMAIN found :
                  i < j => SimGeq(found[i].similarity, found[j].similarity)
           /\ \A i \in DOMAIN found : found[i].episode.outcome = "failure"

C9_Witness ==
    \E p \in Pairs, t \in Thresholds :
        LET found == find_failures_like(store, p[1], p[2], t, "fuzzy")
        IN /\ Len(found) = 1
           /\ found[1].episode.signature # hash_signature(p[1], p[2])
           /\ SimGeq(ThresholdValue(t), found[1].similarity)
           /\ \E i \in DOMAIN store :
                  /\ store[i].outcome = "success"
                  /\ store[i].signature = hash_signature(p[1], p[2])

\* C10: every step keeps the rows of the store as they are and only adds
\* rows; ids are unique and grow in insertion order.
C10_StoreAppendOnly ==
    [][/\ Len(store') >= Len(store)
       /\ \A i \in DOMAIN store : store'[i] = store[i]
       /\ \A i, j \in DOMAIN store' : i < j => store'[i].id < store'[j].id]_vars

C10_Witness == Len(store) = MaxStore /\ store[1].created_at < store[MaxStore].created_at

\* C11: the signature is a function of the (task, plan) pair that tells
\* pairs apart: a stored row carries the signature of a query exactly when
\* its task and its plan are the query's, so the exact method returns only
\* failures of the very same pair.
C11_SignatureDistinguishesPairs ==
    \A p \in Pairs :
        /\ \A i \in DOMAIN store :
               store[i].signature = hash_signature(p[1], p[2])
                   <=> (store[i].task = p[1] /\ store[i].plan = p[2])
        /\ \A t \in Thresholds :
               \A m \in Range(find_failures_like(store, p[1], p[2], t, "exact")) :
                   m.episode.task = p[1] /\ m.episode.plan = p[2]

\* C12: a trace file is written once: no session writes its trace twice,
\* and a step never changes or removes a trace file that exists.
C12_TraceWriteOnce ==
    /\ [](Len(rec[Host].writes) <= 1)
    /\ [][\A path \in DOMAIN files :
              files[path] # NoFile => files'[path] = files[path]]_vars

\* C13: a failure to list or read the working directory never stops a
\* session and never reaches the caller: no session is aborted before its
\* work, none ends by the error of a directory listing, and a trace that is
\* written carries the outcome of the caller's work.
C13_SnapshotFailureNeverAborts ==
    LET self == rec[Host]
    IN /\ self.pc # "aborted"
       /\ self.raised # OSError("listdir")
       /\ (self.pc = "ended" /\ self.writes # <<>>)
              => self.writes[Len(self.writes)].outcome =
                     (IF self.work = "returned" THEN "success" ELSE "failure")

\* Position of an event kind in the order C14 gives.
EventRank(kind) ==
    CASE kind = "env_snapshot" -> 0
      [] kind = "step" -> 1
      [] kind = "fs_diff" -> 2
      [] kind = "exception" -> 3

\* C14: the events of a persisted trace are the events logged in the
\* session, in log order: one env_snapshot event first, the caller's events,
\* at most one fs_diff event, and the exception event last exactly when the
\* caller's work raised.
C14_TraceEventsAreSessionLog ==
    LET self == rec[Host]
    IN (self.pc = "ended" /\ self.writes # <<>>)
       => LET ev == self.writes[Len(self.writes)].events
              Count(kind) == Cardinality({ i \in DOMAIN ev : ev[i].kind = kind })
          IN /\ ev = self.events
             /\ Count("env_snapshot") = 1
             /\ ev[1].kind = "env_snapshot"
             /\ Count("fs_diff") <= 1
             /\ Count("exception") = (IF self.work = "raised" THEN 1 ELSE 0)
             /\ \A i, j \in DOMAIN ev :
                    i < j => EventRank(ev[i].kind) <= EventRank(ev[j].kind)

\* C15: classify_failure returns the first category, in the order TIMEOUT,
\* PERMISSION, VALIDATION, NETWORK, NOT_FOUND, LOGIC, one of whose patterns
\* occurs in the lowercased message, and UNKNOWN exactly when no pattern of
\* any category occurs.
C15_ClassifyFirstMatchWins ==
    \A i \in DOMAIN calls :
        calls[i].fn = "classify_failure"
        => LET msg == calls[i].args[1]
               result == calls[i].result
               order == <<"TIMEOUT", "PERMISSION", "VALIDATION",
                          "NETWORK", "NOT_FOUND", "LOGIC">>
               Occurs(kind) ==
                   \E k \in DOMAIN msg : LowerFragment(msg[k]) \in Patterns(kind)
           IN /\ (result = "UNKNOWN") <=> (\A k \in DOMAIN order : ~Occurs(order[k]))
              /\ result # "UNKNOWN"
                     => \E k \in DOMAIN order :
                            /\ order[k] = result
                            /\ Occurs(order[k])
                            /\ \A j \in 1..(k - 1) : ~Occurs(order[j])

\* a message in which a pattern of a later category stands before a pattern
\* of an earlier category, and a message no pattern occurs in
C15_Witness ==
    /\ \E i \in DOMAIN calls :
           /\ calls[i].fn = "classify_failure"
           /\ calls[i].result = "TIMEOUT"
           /\ calls[i].args[1][1] \in Patterns("NETWORK")
    /\ \E i \in DOMAIN calls :
           /\ calls[i].fn = "classify_failure"
           /\ calls[i].result = "UNKNOWN"
           /\ calls[i].args[1] # <<>>

\* C16: a call of find_failures_like leaves the store as it is: the same
\* rows, each with the same fields.
C16_FindIsReadOnly ==
    [][(/\ Len(calls') = Len(calls) + 1
        /\ calls'[Len(calls')].fn = "find_failures_like")
       => store' = store]_vars

\* a query that returned matches from a store that also holds other rows
C16_Witness ==
    \E i \in DOMAIN calls :
        /\ calls[i].fn = "find_failures_like"
        /\ calls[i].result # <<>>
        /\ Len(calls[i].args[1]) > Len(calls[i].result)
        /\ store = calls[i].args[1]

C18_CosineOfEmptyAndOfSelf ==
    \A i \in DOMAIN calls :
        calls[i].fn = "cosine_similarity_pure"
        => LET text1 == calls[i].args[1]
               text2 == calls[i].args[2]
           IN /\ (text1 = <<>> \/ text2 = <<>>) => calls[i].result = Zero
              /\ (text1 = text2 /\ text1 # <<>>) => calls[i].result = One

\* C19: two sessions for the same (task, plan) can both pass the gate before
\* either persists, both run, and both record a failure Episode: when both
\* have ended by an error of their work, each has inserted its own failure
\* Episode for the pair.
C19_RacingSessionsBothRecordFailure ==
    \A r, o \in Recorders :
        (/\ r # o
         /\ rec[r].pc = "ended" /\ rec[r].work = "raised"
         /\ rec[o].pc = "ended" /\ rec[o].work = "raised"
         /\ rec[r].task = rec[o].task /\ rec[r].plan = rec[o].plan)
        => /\ Len(rec[r].inserted) = 1
           /\ \E i \in DOMAIN store :
                  /\ store[i].id = rec[r].inserted[1]
                  /\ store[i].outcome = "failure"
                  /\ store[i].task = rec[r].task
                  /\ store[i].plan = rec[r].plan

\* C20: a session whose work returned normally is never recorded as failed:
\* it writes no trace with outcome failure, logs no exception event and
\* inserts no failure Episode, also when a write of the success path fails.
C20_SuccessNeverRecordedAsFailure ==
    LET self == rec[Host]
    IN (self.pc = "ended" /\ self.work = "returned")
       => /\ \A k \in DOMAIN self.writes : self.writes[k].outcome # "failure"
          /\ \A k \in DOMAIN self.events : self.events[k].kind # "exception"
          /\ \A i \in DOMAIN store :
                 store[i].id \in Range(self.inserted) => store[i].outcome # "failure"

\* The gate's query for the recorder self finds failures in the table db.
GateFinds(db, self) ==
    find_failures_like(db, self.task, self.plan,
                       self.min_similarity, self.similarity_method) # <<>>

\* C21: gating is monotonic over the history of the store: no step that
\* changes the store turns the gate's query of a recorder from one that
\* finds failures into one that finds none, and a recorder whose session the
\* gate stopped is stopped by the gate again when it opens its next session.
C21_GatingMonotonic ==
    [][/\ (store' # store /\ rec[Host].pc # "none" /\ GateFinds(store, rec[Host]))
              => GateFinds(store', rec[Host])
       /\ (rec[Host].pc = "blocked" /\ Opens) => rec'[Host].pc = "blocked"]_vars

\* the gate has stopped every session of the recorder, the last one on a
\* store that also holds a success of the recorder's own (task, plan)
C21_Witness ==
    /\ rec[Host].pc = "blocked"
    /\ rec[Host].opened = MaxSessions
    /\ rec[Host].events = <<>>
    /\ Len(store) = MaxStore
    /\ \E i \in DOMAIN store :
           /\ store[i].outcome = "success"
           /\ store[i].signature = hash_signature(rec[Host].task, rec[Host].plan)

\* C22: the trace a Recorder persists for a later session of its own holds
\* the events of that session only: it begins with that session's
\* env_snapshot event and holds no env_snapshot event of an earlier session.
C22_SecondTraceHoldsOwnEventsOnly ==
    LET self == rec[Host]
    IN (self.pc = "ended" /\ self.opened >= 2 /\ self.writes # <<>>)
       => LET ev == self.writes[Len(self.writes)].events
          IN /\ ev # <<>>
             /\ ev[1].kind = "env_snapshot"
             /\ \A k \in DOMAIN ev : ev[k].kind = "env_snapshot" => k = 1

====
